---- MODULE Spec2Model ----
(***************************************************************************)
(* A model of scripts/main.js: a browser note store on IndexedDB.          *)
(*                                                                         *)
(* The page opens database 'notes_db' (version 1), creates the object      *)
(* store 'notes_os' (keyPath 'id', autoIncrement) on first use, and then   *)
(* reacts to events: form submit (addData), cursor steps (displayData),    *)
(* Delete clicks (deleteItem) and the notifications of the transactions    *)
(* these start.  Every handler of the script is one action.                *)
(*                                                                         *)
(* The storage subsystem is modelled by the rules the script relies on:    *)
(* transactions over the same object store run in creation order unless    *)
(* both are read-only; a key generator that starts at 1 and only grows;    *)
(* delete-by-key succeeds whether or not the key is present; a cursor      *)
(* walks the records in ascending key order.                               *)
(***************************************************************************)
EXTENDS Naturals, Sequences, FiniteSets

\* ------------------------------------------------------------------ bounds
\* Keys the generator hands out in one run of the model.
MaxKeys == 2
\* Transactions in flight at once.
MaxQueue == 2

\* Children the display list may hold.  Two overlapping cursor runs over
\* MaxKeys records fill it with 2 * MaxKeys entries.  A submit is taken only
\* when the cursor runs it can lead to stay within this.
MaxList == 4

\* What a user may have typed into #title and #body at a submit.
Forms == {<<"", "">>, <<"t", "b">>}

VARIABLES
  dbVersion,   \* the version of database 'notes_db' on disk; 0: no database
  schemaRuns,  \* how often the upgrade handler has created the object store
  openReq,     \* the open request of line 14: "pending", "success" or "error"
  storeExists, \* the object store 'notes_os' has been created
  db,          \* the script's variable db (line 9): "undefined" or "handle"
  notes,       \* the records of 'notes_os'
  keyGen,      \* the key generator of 'notes_os' (autoIncrement)
  titleInput,  \* titleInput.value
  bodyInput,   \* bodyInput.value
  list,        \* the children of .entry-display, first child first
  txs,         \* the transactions in flight, in creation order
  uncaught,    \* the source places that have thrown an uncaught TypeError
  openErrLogs, \* how often 'Database failed to open' was logged
  idLog,       \* the keys the generator has handed out, in order
  iter,        \* what the last finished cursor run yielded, and whether a
               \* read-write transaction has committed since
  ev           \* the handler that ran last, and what it observed

vars == <<dbVersion, schemaRuns, openReq, storeExists, db, notes, keyGen, titleInput, bodyInput,
          list, txs, uncaught, openErrLogs, idLog, iter, ev>>

\* What survives a page: the database's version, and the count of schema
\* creations kept with it.
disk == <<dbVersion, schemaRuns>>

\* ------------------------------------------------------------ pure helpers
\* The version window.indexedDB.open('notes_db', 1) asks for.
DbVersion == 1

\* Fault variant of NeedsUpgrade: the upgrade runs at every open.
NeedsUpgradeAlways(v) == TRUE

\* upgradeneeded fires when the database on disk is older than the version
\* asked for (a database that does not exist has version 0).
NeedsUpgrade(v) == v < DbVersion

NoItem == [title |-> "", body |-> "", set |-> FALSE]

Item(t, b) == [title |-> t, body |-> b, set |-> TRUE]

\* Fault variant of Note: the two fields of newItem exchanged.
NoteSwapped(k, it) == [id |-> k, title |-> it.body, body |-> it.title]

\* newItem of line 59 as stored under key k.
Note(k, it) == [id |-> k, title |-> it.title, body |-> it.body]

Ids(S) == {r.id : r \in S}

RECURSIVE Digits(_)
\* String(id): the decimal digits of a key, as setAttribute stores it.
Digits(n) == IF n < 10 THEN <<n>> ELSE Digits(n \div 10) \o <<n % 10>>

IdToAttr(k) == Digits(k)

RECURSIVE NumberOf(_)
\* Number(text): the number a run of decimal digits denotes; Number(null) is 0.
NumberOf(s) ==
  IF s = <<>> THEN 0
  ELSE 10 * NumberOf(SubSeq(s, 1, Len(s) - 1)) + s[Len(s)]

\* The lowest element identity used neither by a child of the list nor by an
\* entry a pending Delete still refers to.
UsedEids == {list[i].eid : i \in 1..Len(list)}
            \cup {txs[i].entry : i \in {j \in 1..Len(txs) : txs[j].kind = "delete"}}

NewEid == CHOOSE n \in 1..(Cardinality(UsedEids) + 1) :
            /\ n \notin UsedEids
            /\ \A m \in 1..(n - 1) : m \in UsedEids

\* --------------------------------------------------------------- elements
\* div.entry built by the cursor handler: h2, h4, p and a Delete button.
Entry(r, e) ==
  [tag |-> "div", attr |-> IdToAttr(r.id), title |-> r.title, body |-> r.body,
   eid |-> e]

\* The 'No entries stored.' paragraph and the 'No notes stored.' list item.
Sentinel(t, e) ==
  [tag |-> t, attr |-> <<>>, title |-> "", body |-> "", eid |-> e]

IsSentinel(el) == el.tag \in {"p", "li"}

IsEntry(el) == el.tag = "div"

\* list.insertBefore(entry, list.firstElementChild)
InsertFirst(l, el) == <<el>> \o l

\* parent.removeChild(entry)
RemoveChild(l, e) == SelectSeq(l, LAMBDA el : el.eid # e)

Attached(l, e) == \E i \in 1..Len(l) : l[i].eid = e

RemoveAt(q, i) == SubSeq(q, 1, i - 1) \o SubSeq(q, i + 1, Len(q))

\* ----------------------------------------------------------- transactions
Tx(k, it, a, nid, e, c) ==
  [kind |-> k, item |-> it, aFired |-> FALSE, attr |-> a, noteId |-> nid,
   entry |-> e, last |-> 0, yielded |-> <<>>, steps |-> 0, cause |-> c]

\* addData: the transaction of line 62 with the add request of line 68.
AddTx(it) == Tx("add", it, <<>>, 0, 0, NoItem)

\* deleteItem: the transaction of line 167 with the delete request of line
\* 169, for the entry whose button was clicked.
DeleteTx(a, nid, e) == Tx("delete", NoItem, a, nid, e, NoItem)

\* displayData: the transaction and cursor of lines 98-99; `c` and `k` are the
\* item and the key of the Add whose completion started the run (NoItem and 0
\* for the run at open).
ReadTx(c, k) == Tx("read", NoItem, <<>>, k, 0, c)

ReadWrite(t) == t.kind \in {"add", "delete"}

\* Fault variant of Runnable: the store does not order transactions.
RunnableAny(i) == TRUE

\* Transactions with overlapping scope run in creation order unless both
\* are read-only: transaction i may act when nothing created before it and
\* still in flight conflicts with it.
Runnable(i) ==
  \A j \in 1..(i - 1) : ~(ReadWrite(txs[j]) \/ ReadWrite(txs[i]))

\* The record a forward cursor positioned after key `last` comes to next.
HasNext(S, last) == \E r \in S : r.id > last

\* Fault variant of NextRecord: a cursor that jumps to the greatest key.
NextRecordLast(S, last) ==
  CHOOSE r \in S : r.id > last /\ \A q \in S : q.id <= r.id

NextRecord(S, last) ==
  CHOOSE r \in S : r.id > last /\ \A q \in S : q.id > last => r.id <= q.id

\* objectStore.delete(key): the store without the record under `key`.
StoreDelete(S, key) == {r \in S : r.id # key}

\* Fault variant of DeleteOutcome: a store that rejects an absent key.
DeleteOutcomeStrict(S, key) ==
  IF \E r \in S : r.id = key THEN "success" ELSE "error"

\* The outcome of the delete request: deleting a key that is not in the store
\* is a success that removes nothing.
DeleteOutcome(S, key) == "success"

\* Fault variant of ClickedAttr: the attribute read from the button itself,
\* which has none (getAttribute gives null).
ClickedAttrOfButton(el) == <<>>

\* e.target.parentNode.getAttribute('data-note-id') (line 163): the attribute
\* of the entry that holds the clicked button.
ClickedAttr(el) == el.attr

\* Fault variant of GenKey: one more than the greatest key in the store.
GenKeyReuse(S, k) ==
  IF S = {} THEN 1 ELSE (CHOOSE m \in {r.id : r \in S} : \A r \in S : r.id <= m) + 1

\* The key the generator hands to a record added without an id.
GenKey(S, k) == k

\* objectStore.add(item) on a store with a key generator
StoreAdd(S, k, it) == S \cup {Note(k, it)}

\* The key after k of the generator.
NextKey(k) == k + 1

\* ------------------------------------------------------------- observations
Ev(h) ==
  [h |-> h, before |-> {}, after |-> {}, item |-> NoItem, attr |-> <<>>,
   aFired |-> FALSE, attached |-> FALSE, reported |-> FALSE,
   opened |-> FALSE, yielded |-> <<>>, again |-> FALSE, prev |-> <<>>,
   steps |-> 0, key |-> 0]

\* ------------------------------------------------------------------- Init
Init ==
  /\ dbVersion = 0
  /\ schemaRuns = 0
  /\ openReq = "pending"
  /\ storeExists = FALSE
  /\ db = "undefined"
  /\ notes = {}
  /\ keyGen = 1
  /\ titleInput = ""
  /\ bodyInput = ""
  /\ list = <<>>
  /\ txs = <<>>
  /\ uncaught = {}
  /\ openErrLogs = 0
  /\ idLog = <<>>
  /\ iter = [yielded |-> <<>>, fresh |-> FALSE]
  /\ ev = Ev("load")

\* ---------------------------------------------------------------- opening
\* request.onupgradeneeded: create the object store and its two indexes.
OnUpgradeNeeded ==
  /\ openReq = "pending"
  /\ NeedsUpgrade(dbVersion)
  /\ dbVersion' = DbVersion
  /\ schemaRuns' = schemaRuns + 1
  /\ storeExists' = TRUE
  /\ notes' = {}
  /\ keyGen' = 1
  /\ ev' = Ev("upgradeneeded")
  /\ UNCHANGED <<openReq, db, titleInput, bodyInput, list, txs, uncaught,
                 openErrLogs, idLog, iter>>

\* request.onsuccess: store the handle, then displayData().
OnOpenSuccess ==
  /\ openReq = "pending"
  /\ ~NeedsUpgrade(dbVersion)
  /\ storeExists
  /\ openReq' = "success"
  /\ db' = "handle"
  /\ list' = <<>>
  /\ txs' = Append(txs, ReadTx(NoItem, 0))
  /\ ev' = Ev("open.success")
  /\ UNCHANGED disk
  /\ UNCHANGED <<storeExists, notes, keyGen, titleInput, bodyInput, uncaught,
                 openErrLogs, idLog, iter>>

\* request.onerror: log, nothing else.
OnOpenError ==
  /\ openReq = "pending"
  /\ openReq' = "error"
  /\ openErrLogs' = openErrLogs + 1
  /\ ev' = Ev("open.error")
  /\ UNCHANGED disk
  /\ UNCHANGED <<storeExists, db, notes, keyGen, titleInput, bodyInput, list,
                 txs, uncaught, idLog, iter>>

\* The page is reloaded while no read-write transaction is in flight: a new
\* run of the script (lines 1-14) on the database the last one left.  Cursor
\* runs in flight end with the page.
Reload ==
  /\ \A i \in 1..Len(txs) : ~ReadWrite(txs[i])
  /\ openReq # "pending"
  /\ openReq' = "pending"
  /\ db' = "undefined"
  /\ titleInput' = ""
  /\ bodyInput' = ""
  /\ list' = <<>>
  /\ txs' = <<>>
  /\ uncaught' = {}
  /\ openErrLogs' = 0
  /\ iter' = [yielded |-> <<>>, fresh |-> FALSE]
  /\ ev' = Ev("reload")
  /\ UNCHANGED <<disk, storeExists, notes, keyGen, idLog>>

\* ------------------------------------------------------------------- form
\* The cursor runs that could overlap after one more submit: those in flight,
\* one for each Add in flight, and one for the new Add.
RunsAhead ==
  Len(SelectSeq(txs, LAMBDA x : x.kind \in {"add", "read"})) + 1

\* The records those runs could find: those stored, one for each Add that
\* has yet to insert, and one for the new Add.
RecordsAhead ==
  Cardinality(notes)
    + Len(SelectSeq(txs, LAMBDA x : x.kind = "add" /\ ~x.aFired)) + 1

\* form.onsubmit = addData, up to the registration of its three handlers
\* (lines 54-85).  The user has typed t and b into the two fields.  With db
\* undefined, db.transaction (line 62) throws a TypeError.
Submit(t, b) ==
  /\ Len(idLog) + Len(SelectSeq(txs, LAMBDA x : x.kind = "add" /\ ~x.aFired))
       < MaxKeys
  /\ titleInput' = t
  /\ bodyInput' = b
  /\ IF db = "undefined"
     THEN /\ uncaught' = uncaught \cup {"addData:62"}
          /\ ev' = [Ev("submit.throw") EXCEPT !.item = Item(t, b)]
          /\ UNCHANGED txs
     ELSE /\ Len(txs) < MaxQueue
          /\ RunsAhead * RecordsAhead <= MaxList
          /\ txs' = Append(txs, AddTx(Item(t, b)))
          /\ ev' = [Ev("submit") EXCEPT !.item = Item(t, b)]
          /\ UNCHANGED uncaught
  /\ UNCHANGED disk
  /\ UNCHANGED <<openReq, storeExists, db, notes, keyGen, list, openErrLogs,
                 idLog, iter>>

\* Fault variant of AddRequestSuccess: the display is refreshed from the
\* request's success handler instead of the transaction's oncomplete.
AddRequestSuccessRefresh(i) ==
  /\ txs[i].kind = "add"
  /\ ~txs[i].aFired
  /\ Runnable(i)
  /\ LET k == GenKey(notes, keyGen) IN
       /\ notes' = StoreAdd(notes, k, txs[i].item)
       /\ idLog' = Append(idLog, k)
       /\ txs' = Append([txs EXCEPT ![i].aFired = TRUE, ![i].noteId = k],
                        ReadTx(txs[i].item, k))
       /\ ev' = [Ev("add.success") EXCEPT !.before = notes, !.after = notes',
                                          !.item = txs[i].item,
                                          !.aFired = TRUE, !.opened = TRUE,
                                          !.key = k]
  /\ keyGen' = NextKey(keyGen)
  /\ titleInput' = ""
  /\ bodyInput' = ""
  /\ list' = <<>>
  /\ UNCHANGED disk
  /\ UNCHANGED <<openReq, storeExists, db, uncaught, openErrLogs, iter>>

\* request.onsuccess of objectStore.add (lines 68-73): the record is in the
\* store under the generated key; clear the form.
AddRequestSuccess(i) ==
  /\ txs[i].kind = "add"
  /\ ~txs[i].aFired
  /\ Runnable(i)
  /\ LET k == GenKey(notes, keyGen) IN
       /\ notes' = StoreAdd(notes, k, txs[i].item)
       /\ idLog' = Append(idLog, k)
       /\ txs' = [txs EXCEPT ![i].aFired = TRUE, ![i].noteId = k]
       /\ ev' = [Ev("add.success") EXCEPT !.before = notes, !.after = notes',
                                          !.item = txs[i].item,
                                          !.aFired = TRUE, !.opened = TRUE,
                                          !.key = k]
  /\ keyGen' = NextKey(keyGen)
  /\ titleInput' = ""
  /\ bodyInput' = ""
  /\ UNCHANGED disk
  /\ UNCHANGED <<openReq, storeExists, db, list, uncaught, openErrLogs, iter>>

\* transaction.oncomplete of addData (lines 76-81): displayData().
AddTxComplete(i) ==
  /\ txs[i].kind = "add"
  /\ txs[i].aFired
  /\ Runnable(i)
  /\ list' = <<>>
  /\ txs' = Append(RemoveAt(txs, i), ReadTx(txs[i].item, txs[i].noteId))
  /\ iter' = [yielded |-> <<>>, fresh |-> FALSE]
  /\ ev' = [Ev("add.complete") EXCEPT !.before = notes, !.after = notes,
                                      !.item = txs[i].item,
                                      !.aFired = txs[i].aFired,
                                      !.opened = TRUE,
                                      !.key = txs[i].noteId]
  /\ UNCHANGED disk
  /\ UNCHANGED <<openReq, storeExists, db, notes, keyGen, titleInput,
                 bodyInput, uncaught, openErrLogs, idLog>>

\* Fault variant of AddTxError: an error handler that issues the Add again.
AddTxErrorRetry(i) ==
  /\ txs[i].kind = "add"
  /\ ~txs[i].aFired
  /\ Runnable(i)
  /\ txs' = Append(RemoveAt(txs, i), AddTx(txs[i].item))
  /\ ev' = [Ev("add.error") EXCEPT !.before = notes, !.after = notes,
                                   !.item = txs[i].item, !.reported = TRUE]
  /\ UNCHANGED disk
  /\ UNCHANGED <<openReq, storeExists, db, notes, keyGen, titleInput,
                 bodyInput, list, uncaught, openErrLogs, idLog, iter>>

\* Fault variant of AddTxError: an error handler that refreshes the display
\* as oncomplete does.
AddTxErrorRefresh(i) ==
  /\ txs[i].kind = "add"
  /\ ~txs[i].aFired
  /\ Runnable(i)
  /\ list' = <<>>
  /\ txs' = Append(RemoveAt(txs, i), ReadTx(txs[i].item, txs[i].noteId))
  /\ ev' = [Ev("add.error") EXCEPT !.before = notes, !.after = notes,
                                   !.item = txs[i].item, !.reported = TRUE]
  /\ UNCHANGED disk
  /\ UNCHANGED <<openReq, storeExists, db, notes, keyGen, titleInput,
                 bodyInput, uncaught, openErrLogs, idLog, iter>>

\* transaction.onerror of addData (lines 83-85): the transaction could not be
\* opened; its request never runs.
AddTxError(i) ==
  /\ txs[i].kind = "add"
  /\ ~txs[i].aFired
  /\ Runnable(i)
  /\ txs' = RemoveAt(txs, i)
  /\ ev' = [Ev("add.error") EXCEPT !.before = notes, !.after = notes,
                                   !.item = txs[i].item, !.reported = TRUE]
  /\ UNCHANGED disk
  /\ UNCHANGED <<openReq, storeExists, db, notes, keyGen, titleInput,
                 bodyInput, list, uncaught, openErrLogs, idLog, iter>>

\* ---------------------------------------------------------------- display
\* Fault variant of CursorStep: the handler has no exhausted-cursor branch, so
\* a run that has yielded every record never ends.
CursorStepNoEnd(i) ==
  /\ txs[i].kind = "read"
  /\ Runnable(i)
  /\ HasNext(notes, txs[i].last)
  /\ LET r == NextRecord(notes, txs[i].last) IN
       /\ list' = InsertFirst(list, Entry(r, NewEid))
       /\ txs' = [txs EXCEPT ![i].last = r.id,
                             ![i].yielded = Append(@, r),
                             ![i].steps = @ + 1]
       /\ ev' = [Ev("cursor") EXCEPT !.before = notes, !.after = notes,
                                     !.yielded = txs'[i].yielded,
                                     !.item = txs[i].cause,
                                     !.key = txs[i].noteId,
                                     !.steps = txs[i].steps + 1]
  /\ UNCHANGED disk
  /\ UNCHANGED <<openReq, storeExists, db, notes, keyGen, titleInput,
                 bodyInput, uncaught, openErrLogs, idLog, iter>>

\* openCursor().onsuccess of displayData (lines 99-155): one cursor step.
CursorStep(i) ==
  /\ txs[i].kind = "read"
  /\ Runnable(i)
  /\ IF HasNext(notes, txs[i].last)
     THEN LET r == NextRecord(notes, txs[i].last) IN
          /\ list' = InsertFirst(list, Entry(r, NewEid))
          /\ txs' = [txs EXCEPT ![i].last = r.id,
                                ![i].yielded = Append(@, r),
                                ![i].steps = @ + 1]
          /\ ev' = [Ev("cursor") EXCEPT !.before = notes, !.after = notes,
                                        !.yielded = txs'[i].yielded,
                                        !.item = txs[i].cause,
                                        !.key = txs[i].noteId,
                                        !.steps = txs[i].steps + 1]
          /\ UNCHANGED iter
     ELSE /\ list' = IF list = <<>> THEN <<Sentinel("p", NewEid)>> ELSE list
          /\ txs' = RemoveAt(txs, i)
          /\ iter' = [yielded |-> txs[i].yielded, fresh |-> TRUE]
          /\ ev' = [Ev("exhausted") EXCEPT !.before = notes, !.after = notes,
                                           !.yielded = txs[i].yielded,
                                           !.item = txs[i].cause,
                                           !.key = txs[i].noteId,
                                           !.steps = txs[i].steps + 1,
                                           !.again = iter.fresh,
                                           !.prev = iter.yielded]
  /\ UNCHANGED disk
  /\ UNCHANGED <<openReq, storeExists, db, notes, keyGen, titleInput,
                 bodyInput, uncaught, openErrLogs, idLog>>

\* ----------------------------------------------------------------- delete
\* deleteBtn.onclick = deleteItem, up to the registration of oncomplete.
Click(k) ==
  /\ IsEntry(list[k])
  /\ Len(txs) < MaxQueue
  /\ txs' = Append(txs, DeleteTx(list[k].attr,
                                 NumberOf(ClickedAttr(list[k])),
                                 list[k].eid))
  /\ ev' = [Ev("click") EXCEPT !.attr = list[k].attr]
  /\ UNCHANGED disk
  /\ UNCHANGED <<openReq, storeExists, db, notes, keyGen, titleInput,
                 bodyInput, list, uncaught, openErrLogs, idLog, iter>>

\* The delete request of line 169 runs.  On its success the transaction
\* completes and transaction.oncomplete of deleteItem fires (lines 172-184):
\* an entry that is no longer a child of the list has a null parentNode, and
\* line 175 throws a TypeError before the sentinel test.  A failed request
\* aborts the transaction; deleteItem registers no handler for that.
DeleteTxComplete(i) ==
  /\ txs[i].kind = "delete"
  /\ Runnable(i)
  /\ txs' = RemoveAt(txs, i)
  /\ IF DeleteOutcome(notes, txs[i].noteId) = "success"
     THEN /\ notes' = StoreDelete(notes, txs[i].noteId)
          /\ iter' = [yielded |-> <<>>, fresh |-> FALSE]
          /\ IF Attached(list, txs[i].entry)
             THEN /\ list' = LET l == RemoveChild(list, txs[i].entry) IN
                             IF l = <<>> THEN <<Sentinel("li", NewEid)>> ELSE l
                  /\ UNCHANGED uncaught
             ELSE /\ uncaught' = uncaught \cup {"deleteItem:175"}
                  /\ UNCHANGED list
          /\ ev' = [Ev("delete.complete") EXCEPT
                      !.before = notes, !.after = notes',
                      !.attr = txs[i].attr, !.key = txs[i].noteId,
                      !.opened = TRUE,
                      !.attached = Attached(list, txs[i].entry)]
     ELSE /\ ev' = [Ev("delete.error") EXCEPT
                      !.before = notes, !.after = notes,
                      !.attr = txs[i].attr, !.key = txs[i].noteId,
                      !.opened = TRUE,
                      !.attached = Attached(list, txs[i].entry)]
          /\ UNCHANGED <<notes, iter, list, uncaught>>
  /\ UNCHANGED disk
  /\ UNCHANGED <<openReq, storeExists, db, keyGen, titleInput, bodyInput,
                 openErrLogs, idLog>>

\* The transaction of deleteItem could not be opened.  deleteItem registers
\* no error handler: nothing runs.
DeleteTxError(i) ==
  /\ txs[i].kind = "delete"
  /\ Runnable(i)
  /\ txs' = RemoveAt(txs, i)
  /\ ev' = [Ev("delete.error") EXCEPT !.before = notes, !.after = notes,
                                      !.attr = txs[i].attr,
                                      !.key = txs[i].noteId,
                                      !.attached = Attached(list, txs[i].entry)]
  /\ UNCHANGED disk
  /\ UNCHANGED <<openReq, storeExists, db, notes, keyGen, titleInput,
                 bodyInput, list, uncaught, openErrLogs, idLog, iter>>

\* ----------------------------------------------------------------- claims
RECURSIVE Ascending(_)
\* The records of S as a sequence in ascending id order.
Ascending(S) ==
  IF S = {} THEN <<>>
  ELSE LET m == CHOOSE r \in S : \A q \in S : r.id <= q.id
       IN <<m>> \o Ascending(S \ {m})

Range(q) == {q[i] : i \in 1..Len(q)}

ReadCount(q) == Len(SelectSeq(q, LAMBDA x : x.kind = "read"))

\* C1 (monotonic identity): every key the store hands out is strictly
\* greater than every key handed out before, also after deletions; a key
\* just assigned was not in the table before, and no two records share an id.
C1_MonotonicIds ==
  /\ \A i, j \in 1..Len(idLog) : i < j => idLog[i] < idLog[j]
  /\ \A r, q \in notes : r.id = q.id => r = q
  /\ Ids(notes) \subseteq Range(idLog)
  /\ ev.h = "add.success" =>
       /\ ev.key = idLog[Len(idLog)]
       /\ ev.key \notin Ids(ev.before)
       /\ ev.after = ev.before \cup {[id |-> ev.key, title |-> ev.item.title,
                                      body |-> ev.item.body]}

\* A second key assigned after the record under the first was deleted.
C1_Witness ==
  /\ ev.h = "add.success"
  /\ Len(idLog) = 2
  /\ idLog[1] \notin Ids(notes)

\* C2 (iteration order and completeness): a cursor run has delivered, at
\* every moment, exactly the records of the table up to its position, each
\* once and in ascending id order; each step that delivers a record puts
\* that record's entry first in the display and leaves the run waiting for
\* the next step; the run ends when it has delivered the whole table.
C2_IterationOrder ==
  /\ \A i \in 1..Len(txs) :
       txs[i].kind = "read" =>
         txs[i].yielded = Ascending({r \in notes : r.id <= txs[i].last})
  /\ ev.h = "cursor" =>
       /\ Len(ev.yielded) >= 1
       /\ list # <<>>
       /\ list[1].tag = "div"
       /\ list[1].attr = Digits(ev.yielded[Len(ev.yielded)].id)
       /\ \E i \in 1..Len(txs) :
            txs[i].kind = "read" /\ txs[i].yielded = ev.yielded
  /\ ev.h = "exhausted" => ev.yielded = Ascending(ev.before)

\* A run that delivered two records and then reported exhaustion.
C2_Witness ==
  /\ ev.h = "exhausted"
  /\ Len(ev.yielded) = 2

\* C3 (round trip): the cursor run started by the completion of an Add yields
\* a record with the title and body of that Add under the key the store gave
\* it;
\* and a run that ends with no read-write transaction committed since the
\* previous run ended yields the same sequence as that run.
C3_RoundTrip ==
  ev.h = "exhausted" =>
    /\ ev.item.set =>
         \E k \in 1..Len(ev.yielded) :
           /\ ev.yielded[k].title = ev.item.title
           /\ ev.yielded[k].body = ev.item.body
           /\ ev.yielded[k].id = ev.key
           /\ ev.key \in Range(idLog)
    /\ ev.again => ev.yielded = ev.prev

\* The run started by Add("t", "b") has ended, right after another run with
\* no commit between the two.
C3_Witness ==
  /\ ev.h = "exhausted"
  /\ ev.item = Item("t", "b")
  /\ ev.again
  /\ Len(ev.yielded) = 2

\* C4 (delete completeness): when a Delete completes, no record of the table
\* has the id written in the clicked entry's data-note-id attribute, every
\* other record is still there unchanged, and at most one record is gone.
C4_DeleteCompleteness ==
  ev.h = "delete.complete" =>
    /\ \A r \in ev.after : Digits(r.id) # ev.attr
    /\ \A r \in ev.before : Digits(r.id) # ev.attr => r \in ev.after
    /\ ev.after \subseteq ev.before
    /\ Cardinality(ev.before \ ev.after) <= 1
    /\ notes = ev.after

\* A Delete that removed one of two records.
C4_Witness ==
  /\ ev.h = "delete.complete"
  /\ Cardinality(ev.before) = 2
  /\ Cardinality(ev.after) = 1

\* C5 (delete idempotence): a Delete whose transaction opened, for an id that
\* is not in the table, ends with the transaction-complete notification and
\* leaves the table as it was.
C5_DeleteIdempotent ==
  (/\ ev.h \in {"delete.complete", "delete.error"}
   /\ ev.opened
   /\ ev.key \notin Ids(ev.before)) =>
     /\ ev.h = "delete.complete"
     /\ ev.after = ev.before
     /\ notes = ev.before

\* A second Delete of the same id has completed on a table that still holds
\* another record.
C5_Witness ==
  /\ ev.h = "delete.complete"
  /\ ev.key \notin Ids(ev.before)
  /\ ev.key \in Range(idLog)
  /\ ev.before # {}

\* C6 (add failure): the step in which an Add's transaction fails to open
\* inserts no record, hands out no key, leaves the form and the display as
\* they are, starts no cursor run, throws nothing, and runs the
\* transaction's error handler.
C6_AddFailure ==
  [][ev'.h = "add.error" =>
       /\ notes' = notes
       /\ keyGen' = keyGen
       /\ idLog' = idLog
       /\ titleInput' = titleInput
       /\ bodyInput' = bodyInput
       /\ list' = list
       /\ ReadCount(txs') = ReadCount(txs)
       /\ Len(txs') = Len(txs) - 1
       /\ uncaught' = uncaught
       /\ ~ev'.aFired
       /\ ev'.reported]_vars

\* An Add of ("t", "b") has failed with the form still holding the text.
C6_Witness ==
  /\ ev.h = "add.error"
  /\ ev.item = Item("t", "b")
  /\ titleInput = "t"
  /\ bodyInput = "b"
  /\ notes # {}


\* C7 (delete failure): the step in which a Delete's transaction fails to
\* open deletes no record, leaves the display as it is, and reports the
\* failure through an error notification.
C7_DeleteFailure ==
  [][(ev'.h = "delete.error" /\ ~ev'.opened) =>
       /\ notes' = notes
       /\ list' = list
       /\ uncaught' = uncaught
       /\ ev'.reported]_vars

\* C8 (open failure): once the open has failed, the failure has been logged
\* once, db stays undefined, the store is neither read nor modified, and no
\* later event of that page throws an uncaught error.
C8_OpenFailure ==
  [][(openReq = "error" /\ ev'.h # "reload") =>
       /\ openReq' = "error"
       /\ openErrLogs = 1
       /\ openErrLogs' = 1
       /\ db' = "undefined"
       /\ notes' = notes
       /\ txs' = <<>>
       /\ list' = list
       /\ uncaught' = uncaught]_vars

\* C9 (add completion ordering): the insertion-success notification of an Add
\* fires while its transaction is still in flight, and the transaction
\* completes only after it; the program changes the form fields only in the
\* insertion-success handler (the user types at a submit, and a reloaded page
\* has a new form); a cursor run is started only by a transaction
\* completing (or by the open); and no entry of the display carries the id of
\* a record whose transaction has not completed.
C9_AddOrdering ==
  [][/\ ev'.h = "add.success" =>
          /\ \E i \in 1..Len(txs) :
               /\ i <= Len(txs')
               /\ txs[i].kind = "add" /\ ~txs[i].aFired
               /\ txs'[i].kind = "add" /\ txs'[i].aFired
               /\ txs'[i].noteId = ev'.key
          /\ titleInput' = "" /\ bodyInput' = ""
     /\ ev'.h = "add.complete" =>
          /\ \E i \in 1..Len(txs) :
               /\ txs[i].kind = "add" /\ txs[i].aFired
               /\ txs[i].noteId = ev'.key
          /\ \A i \in 1..Len(txs') :
               ~(txs'[i].kind = "add" /\ txs'[i].noteId = ev'.key)
          /\ \E r \in notes' : r.id = ev'.key
     /\ <<titleInput', bodyInput'>> # <<titleInput, bodyInput>> =>
          ev'.h \in {"submit", "submit.throw", "add.success", "reload"}
     /\ ReadCount(txs') > ReadCount(txs) =>
          ev'.h \in {"add.complete", "open.success"}
     /\ \A i \in 1..Len(txs') :
          (txs'[i].kind = "add" /\ txs'[i].aFired) =>
            \A k \in 1..Len(list') : list'[k].attr # Digits(txs'[i].noteId)
    ]_vars

\* The transaction of Add("t", "b") has completed and started its cursor run,
\* with the form already holding the text of the next submit.
C9_Witness ==
  /\ ev.h = "add.complete"
  /\ ev.item = Item("t", "b")
  /\ ev.aFired
  /\ list = <<>>
  /\ ReadCount(txs) >= 1
  /\ titleInput = "t"

SentinelCount(l) == Len(SelectSeq(l, IsSentinel))

EntryCount(l) == Len(SelectSeq(l, IsEntry))

\* C10 (empty-table sentinel): with the open succeeded, the table empty and
\* nothing pending, the display holds exactly one sentinel and no note
\* entry; and the display never holds two sentinels, or a sentinel together
\* with a note entry.
C10_Sentinel ==
  /\ (openReq = "success" /\ notes = {} /\ txs = <<>>) =>
       (SentinelCount(list) = 1 /\ EntryCount(list) = 0)
  /\ SentinelCount(list) <= 1
  /\ ~(SentinelCount(list) >= 1 /\ EntryCount(list) >= 1)

\* Nothing is pending: no transaction in flight, no cursor step to come.
Quiescent == txs = <<>>

\* The note ids the entries of the display carry, in display order.
EntryIds(l) ==
  LET e == SelectSeq(l, IsEntry)
  IN  [i \in 1..Len(e) |-> NumberOf(e[i].attr)]

\* C11 (newest-first display): with the open succeeded, nothing pending and
\* the table non-empty, the note entries of the display are in strictly
\* descending id order and the first one carries the greatest id of the table.
C11_NewestFirst ==
  (openReq = "success" /\ Quiescent /\ notes # {}) =>
    LET ids == EntryIds(list)
    IN  /\ \A i \in 1..(Len(ids) - 1) : ids[i] > ids[i + 1]
        /\ Len(ids) >= 1
        /\ ids[1] \in Ids(notes)
        /\ \A k \in Ids(notes) : k <= ids[1]

\* C12 (schema initialization): the upgrade handler creates the store only
\* when the database on disk is older than version 1, and at most once in the
\* database's lifetime; the open-success notification stores the handle only
\* after the creation; and while a page has no handle (a reload, the open of
\* an existing version-1 database and its outcome) the stored records, the
\* key generator and the schema stay as the previous session left them.
C12_SchemaInit ==
  [][/\ ev'.h = "upgradeneeded" =>
          /\ dbVersion < DbVersion
          /\ schemaRuns = 0
          /\ db = "undefined" /\ db' = "undefined"
     /\ schemaRuns' # schemaRuns => ev'.h = "upgradeneeded"
     /\ schemaRuns' <= 1
     /\ ev'.h = "open.success" =>
          /\ db = "undefined" /\ db' = "handle"
          /\ storeExists /\ dbVersion = DbVersion /\ schemaRuns = 1
     /\ dbVersion = DbVersion =>
          /\ disk' = disk /\ storeExists' = storeExists
          /\ (db = "undefined" \/ db' = "undefined") =>
               (notes' = notes /\ keyGen' = keyGen)
    ]_vars

\* A later session opens the database a former one left: one record stored,
\* two keys handed out, the store created once.
C12_Witness ==
  /\ ev.h = "open.success"
  /\ schemaRuns = 1
  /\ Cardinality(notes) = 1
  /\ keyGen = 3
  /\ Len(idLog) = 2

\* C13 (no duplicate entries): in no state does the display hold two entries
\* with the same note id.
C13_NoDuplicates ==
  \A i, j \in 1..Len(list) :
    (i # j /\ IsEntry(list[i]) /\ IsEntry(list[j])) =>
      list[i].attr # list[j].attr

\* Transaction i is the oldest read-write transaction in flight.
OldestReadWrite(q, i) ==
  /\ i \in 1..Len(q)
  /\ ReadWrite(q[i])
  /\ \A j \in 1..(i - 1) : ~ReadWrite(q[j])

\* C14 (serialized mutations): the read-write transactions in flight act one
\* at a time in the order they were created: a record is inserted or deleted
\* only by the oldest of them, and an Add that has inserted is the oldest
\* until it completes.  Every insertion adds exactly one record under a key
\* never handed out before and keeps every other record; a Delete removes
\* only the record of its key; no other step changes the table; and the
\* record of a completing Add is in the table when it completes.
C14_Serialized ==
  [][/\ ev'.h = "add.success" =>
          /\ \E i \in 1..Len(txs) :
               /\ OldestReadWrite(txs, i)
               /\ ~txs[i].aFired
               /\ txs' = [txs EXCEPT ![i].aFired = TRUE,
                                     ![i].noteId = ev'.key]
               /\ notes' = notes \cup {Note(ev'.key, txs[i].item)}
          /\ ev'.key \notin Range(idLog)
          /\ ev'.key \notin Ids(notes)
          /\ idLog' = Append(idLog, ev'.key)
          /\ Cardinality(notes') = Cardinality(notes) + 1
     /\ ev'.h = "add.complete" =>
          /\ \E i \in 1..Len(txs) :
               /\ OldestReadWrite(txs, i)
               /\ txs[i].aFired /\ txs[i].noteId = ev'.key
               /\ SubSeq(txs', 1, Len(txs) - 1) = RemoveAt(txs, i)
          /\ ev'.key \in Ids(notes')
     /\ ev'.h = "delete.complete" =>
          /\ \E i \in 1..Len(txs) :
               /\ OldestReadWrite(txs, i)
               /\ txs[i].kind = "delete" /\ txs[i].noteId = ev'.key
               /\ txs' = RemoveAt(txs, i)
          /\ notes' = {r \in notes : r.id # ev'.key}
     /\ ev'.h \notin {"add.success", "delete.complete"} => notes' = notes
     /\ \A i \in 1..Len(txs') :
          (txs'[i].kind = "add" /\ txs'[i].aFired) => OldestReadWrite(txs', i)
     /\ Cardinality(Range(idLog')) = Len(idLog')
     /\ Ids(notes') \subseteq Range(idLog')
    ]_vars

\* Two Adds were in flight together and both have completed: the cursor run
\* the first one started is still waiting when the second one completes, and
\* the table holds both records.
C14_Witness ==
  /\ ev.h = "add.complete"
  /\ ev.key = 2
  /\ \E i \in 1..Len(txs) : txs[i].kind = "read" /\ txs[i].noteId = 1
  /\ Ids(notes) = {1, 2}

AddCount(q) == Len(SelectSeq(q, LAMBDA x : x.kind = "add"))

DeleteCount(q) == Len(SelectSeq(q, LAMBDA x : x.kind = "delete"))

\* C15 (per-operation state machine without retry): an Add is started only
\* by a form submit and a Delete only by a click, one per event; the step in
\* which an operation completes or errors takes it out of flight, so it
\* reaches no second terminal state; a completing Add starts exactly one
\* cursor run; an erroring Add starts none and has inserted nothing.
C15_NoRetry ==
  [][/\ AddCount(txs') > AddCount(txs) =>
          (ev'.h = "submit" /\ AddCount(txs') = AddCount(txs) + 1)
     /\ DeleteCount(txs') > DeleteCount(txs) =>
          (ev'.h = "click" /\ DeleteCount(txs') = DeleteCount(txs) + 1)
     /\ ev'.h \in {"add.complete", "add.error"} =>
          /\ AddCount(txs') = AddCount(txs) - 1
          /\ DeleteCount(txs') = DeleteCount(txs)
     /\ ev'.h \in {"delete.complete", "delete.error"} =>
          /\ DeleteCount(txs') = DeleteCount(txs) - 1
          /\ AddCount(txs') = AddCount(txs)
          /\ ReadCount(txs') = ReadCount(txs)
     /\ ev'.h = "add.complete" => ReadCount(txs') = ReadCount(txs) + 1
     /\ ev'.h = "add.error" =>
          /\ ReadCount(txs') = ReadCount(txs)
          /\ notes' = notes
          /\ idLog' = idLog
          /\ \E i \in 1..Len(txs) :
               /\ txs[i].kind = "add" /\ ~txs[i].aFired
               /\ txs' = RemoveAt(txs, i)
    ]_vars

\* Of two Adds in flight together the first has completed and started its
\* cursor run, and the second has errored: one record, one run.
C15_Witness ==
  /\ ev.h = "add.error"
  /\ ReadCount(txs) = 1
  /\ AddCount(txs) = 0
  /\ Cardinality(notes) = 1

\* The cursor run started by the Add of key k (by the open, for k = 0) is
\* in flight.
RunInFlight(k) ==
  \E i \in 1..Len(txs) : txs[i].kind = "read" /\ txs[i].noteId = k

\* C16 (iteration terminates): when the store delivers the notifications it
\* owes, the cursor runs in flight all come to their end, and a run ends only
\* in the exhausted-cursor branch or with the page at a reload; a run reaches
\* the exhausted-cursor branch in its step number (records in the table) + 1; the table does not change while a run has
\* begun to step; and the exhausted run is out of flight, so it takes no
\* further step.
C16_IterationTerminates ==
  /\ (ReadCount(txs) > 0) ~> (ReadCount(txs) = 0)
  /\ [](ev.h = "exhausted" => ev.steps = Cardinality(ev.before) + 1)
  /\ [][/\ ev'.h = "exhausted" =>
            /\ RunInFlight(ev'.key)
            /\ \A i \in 1..Len(txs') :
                 ~(txs'[i].kind = "read" /\ txs'[i].noteId = ev'.key)
            /\ ReadCount(txs') = ReadCount(txs) - 1
        /\ ReadCount(txs') < ReadCount(txs) =>
            ev'.h \in {"exhausted", "reload"}
        /\ ev'.h = "cursor" =>
            /\ ev'.steps <= Cardinality(notes)
            /\ ReadCount(txs') = ReadCount(txs)
        /\ (\E i \in 1..Len(txs) : txs[i].kind = "read" /\ txs[i].steps > 0)
            => notes' = notes
       ]_vars

\* A run over two records has ended in its third step while a Delete
\* clicked during the run waits behind it.
C16_Witness ==
  /\ ev.h = "exhausted"
  /\ ev.steps = 3
  /\ Len(ev.yielded) = 2
  /\ DeleteCount(txs) >= 1

\* C17 (handle set before use): every step that starts an Add (a submit), a
\* cursor run or a Delete (a click) is taken with the handle stored in db.
C17_HandleBeforeUse ==
  [][(\/ ev'.h \in {"submit", "submit.throw", "click"}
      \/ ReadCount(txs') > ReadCount(txs)) => db' = "handle"]_vars

\* C18 (delete completion acts on a displayed entry): whenever the
\* transaction-complete handler of a Delete has run, the entry whose button
\* was clicked was a child of the display list, and nothing was thrown at
\* line 175.
C18_DeleteOnDisplayed ==
  /\ ev.h = "delete.complete" => ev.attached
  /\ "deleteItem:175" \notin uncaught

\* C19 (display agrees with the store): with the open succeeded and nothing
\* pending, the note ids the displayed entries carry are the ids of the
\* records in the table.
C19_DisplayAgrees ==
  (openReq = "success" /\ Quiescent) =>
    Range(EntryIds(list)) = Ids(notes)

Next ==
  \/ OnUpgradeNeeded
  \/ OnOpenSuccess
  \/ OnOpenError
  \/ Reload
  \/ \E f \in Forms : Submit(f[1], f[2])
  \/ \E i \in 1..Len(txs) : AddRequestSuccess(i)
  \/ \E i \in 1..Len(txs) : AddTxComplete(i)
  \/ \E i \in 1..Len(txs) : AddTxError(i)
  \/ \E i \in 1..Len(txs) : CursorStep(i)
  \/ \E k \in 1..Len(list) : Click(k)
  \/ \E i \in 1..Len(txs) : DeleteTxComplete(i)
  \/ \E i \in 1..Len(txs) : DeleteTxError(i)

Spec == Init /\ [][Next]_vars

\* A transaction in flight whose turn it is has a notification to come.
TxStep(i) ==
  \/ AddRequestSuccess(i)
  \/ AddTxComplete(i)
  \/ CursorStep(i)
  \/ DeleteTxComplete(i)

\* The event loop delivers the notifications the store owes: the program
\* with the transactions in flight making progress.
LiveSpec == Spec /\ WF_vars(\E i \in 1..Len(txs) : TxStep(i))
====
